---- MODULE Spec2Model ----
(***************************************************************************)
(* Model of clip/clipper.go (package clip of GoSlice): the three           *)
(* operations of clipperClip -- GenerateLayerParts, Inset and Fill (with   *)
(* getLinearFill).  The external clipper library is the environment: what  *)
(* it answers is chosen nondeterministically.  One run of the model is one *)
(* call of one operation; op names the operation and pc its position.      *)
(***************************************************************************)
EXTENDS Integers, Sequences, FiniteSets

\* ------------------------------------------------------------------ bounds
MaxPaths == 1
MaxPathLen == 3
MaxNodes == 4
MaxOffset == 3
MaxInsetCount == 3
MaxWalls == 2
MaxCoord == 2
MaxLineWidth == 2
MaxPolys == 2
MaxSegs == 1

\* ShorterThan(100) at the filter of GenerateLayerParts
MinDistance == 100

VARIABLES
    op, pc,
    \* GenerateLayerParts
    layer,              \* l.Polygons(): the raw paths
    polyList,           \* the filtered paths handed to the engine
    path,               \* the path under construction
    prev,               \* index (0-based) of the last retained point
    j,                  \* index (0-based) of the point the inner loop is at
    kept,               \* history: the indices retained of the current path
    keptAll,            \* history: the same, per finished path
    unionOk,            \* ok of clip.Execute2
    tree,               \* resultPolys: parent of each node, 0 the synthetic root
    polysForNextRound, nextIsNil, thisRound, k,
    parts,              \* layer.parts
    glpOk,              \* the bool GenerateLayerParts returns
    \* Inset
    offset, insetCount,
    offsetResult,       \* the engine: how many contours Offset answers at each level
    insetNr,
    insets,             \* insets[wall][insetNr]: Paths
    calls,              \* history: the level and distance of each o.Execute
    \* Fill / getLinearFill
    minScanlines, maxScanlines, lineWidth,
    polys,              \* the engine, per contour of the region: ok and segments of Execute2
    x,
    numLine,            \* numLine % 2, all the code reads of it
    lines,
    idx,                \* the contour the loop of lines 257-276 is at
    result

glpVars == <<layer, polyList, path, prev, j, kept, keptAll, unionOk, tree,
             polysForNextRound, nextIsNil, thisRound, k, parts, glpOk>>

insetVars == <<offset, insetCount, offsetResult, insetNr, insets, calls>>

fillVars == <<minScanlines, maxScanlines, lineWidth, polys, x, numLine, lines, idx, result>>

vars == <<op, pc, glpVars, insetVars, fillVars>>

\* ----------------------------------------------------------------- helpers
SeqsUpTo(S, n) == UNION {[1..m -> S] : m \in 0..n}

\* s[i] of Go: indices start at 0
At(s, i) == s[i + 1]

RECURSIVE Flatten(_)
Flatten(ss) == IF ss = <<>> THEN <<>> ELSE Head(ss) \o Flatten(Tail(ss))

\* --------------------------------------------------- GenerateLayerParts: data
\* Three points: b is 60 from a, c is exactly 100 from a and 80 from b.
Points == {<<0, 0>>, <<60, 0>>, <<60, 80>>}

Layers == SeqsUpTo(SeqsUpTo(Points, MaxPathLen), MaxPaths)

\* util.MicroPoint.Sub: the vector from q to p
Sub(p, q) == <<p[1] - q[1], p[2] - q[2]>>

\* util.MicroPoint.ShorterThan: the vector is shorter than len
ShorterThan(v, len) == v[1] * v[1] + v[2] * v[2] < len * len

\* line 118 with the previous input point instead of the last retained one
TooNearPrevious(cur, jj, pp) == ShorterThan(Sub(At(cur, jj), At(cur, jj - 1)), MinDistance)

\* line 118: layerPoint.Sub(layerPolygon[prev]).ShorterThan(100)
TooNear(cur, jj, pp) == ShorterThan(Sub(At(cur, jj), At(cur, pp)), MinDistance)

\* A PolyTree: node n (1..Len(t)) has parent t[n] < n; 0 is the synthetic root.
\* The contour of a node is identified with the node.
Trees == UNION {{t \in [1..n -> 0..(n - 1)] : \A m \in 1..n : t[m] < m} : n \in 0..MaxNodes}

\* PolyNode.Childs(): the children of n, in the engine's order
Childs(t, n) == SelectSeq([m \in 1..Len(t) |-> m], LAMBDA m : t[m] = n)

\* PolyNode.Contour() through microPath: the node's contour
Contour(n) == n

NumPoints(pl) == Len(Flatten(pl))

\* clip.Execute2(CtUnion, ...): the trees the engine may answer.  Nothing in,
\* nothing out; otherwise any tree.  The walk never reads polyList, so the
\* larger trees are enumerated for the layers of at most one point only.
Execute2(pl) ==
    IF NumPoints(pl) = 0 THEN {<<>>}
    ELSE IF NumPoints(pl) <= 1 THEN Trees
    ELSE {t \in Trees : Len(t) <= 1}

\* ------------------------------------------------ GenerateLayerParts: actions
\* the state of an operation that is not the one called
IdleGLP ==
    /\ layer = <<>> /\ polyList = <<>> /\ path = <<>> /\ prev = 0 /\ j = 0
    /\ kept = <<>> /\ keptAll = <<>> /\ unionOk = TRUE /\ tree = <<>>
    /\ polysForNextRound = <<>> /\ nextIsNil = FALSE /\ thisRound = <<>>
    /\ k = 0 /\ parts = <<>> /\ glpOk = TRUE

IdleInset ==
    /\ offset = 0 /\ insetCount = 0 /\ offsetResult = <<>>
    /\ insetNr = 0 /\ insets = <<>> /\ calls = <<>>

IdleFill ==
    /\ minScanlines = <<0, 0>> /\ maxScanlines = <<0, 0>> /\ lineWidth = 0
    /\ polys = <<>> /\ x = 0 /\ numLine = 0 /\ lines = <<>> /\ idx = 0
    /\ result = <<>>

InitGLP ==
    /\ IdleInset /\ IdleFill
    /\ op = "GenerateLayerParts"
    /\ pc = "filter"
    /\ layer \in Layers
    /\ polyList = <<>>
    /\ path = <<>>
    /\ prev = 0
    /\ j = 0
    /\ kept = <<>>
    /\ keptAll = <<>>
    /\ unionOk = TRUE
    /\ tree = <<>>
    /\ polysForNextRound = <<>>
    /\ nextIsNil = FALSE
    /\ thisRound = <<>>
    /\ k = 0
    /\ parts = <<>>
    /\ glpOk = TRUE

\* the polygon the outer loop of lines 104-127 is at
Cur == layer[Len(polyList) + 1]

walkVars == <<unionOk, tree, polysForNextRound, nextIsNil, thisRound, k, parts, glpOk>>
filterVars == <<layer, polyList, path, prev, j, kept, keptAll>>

\* lines 111-114: the first point is appended unconditionally
FilterFirst ==
    /\ op = "GenerateLayerParts" /\ pc = "filter"
    /\ Len(polyList) < Len(layer)
    /\ j = 0 /\ j < Len(Cur)
    /\ path' = Append(path, At(Cur, 0))
    /\ kept' = Append(kept, 0)
    /\ j' = j + 1
    /\ UNCHANGED <<insetVars, fillVars, op, pc, layer, polyList, prev, keptAll, walkVars>>

\* lines 118-120: a point too near is skipped
FilterSkip ==
    /\ op = "GenerateLayerParts" /\ pc = "filter"
    /\ Len(polyList) < Len(layer)
    /\ j > 0 /\ j < Len(Cur)
    /\ TooNear(Cur, j, prev)
    /\ j' = j + 1
    /\ UNCHANGED <<insetVars, fillVars, op, pc, layer, polyList, path, prev, kept, keptAll, walkVars>>

\* lines 122-123: any other point is appended and becomes prev
FilterKeep ==
    /\ op = "GenerateLayerParts" /\ pc = "filter"
    /\ Len(polyList) < Len(layer)
    /\ j > 0 /\ j < Len(Cur)
    /\ ~TooNear(Cur, j, prev)
    /\ path' = Append(path, At(Cur, j))
    /\ kept' = Append(kept, j)
    /\ prev' = j
    /\ j' = j + 1
    /\ UNCHANGED <<insetVars, fillVars, op, pc, layer, polyList, keptAll, walkVars>>

\* line 126, and lines 105-107 of the next polygon
FilterPathDone ==
    /\ op = "GenerateLayerParts" /\ pc = "filter"
    /\ Len(polyList) < Len(layer)
    /\ j = Len(Cur)
    /\ polyList' = Append(polyList, path)
    /\ keptAll' = Append(keptAll, kept)
    /\ path' = <<>>
    /\ kept' = <<>>
    /\ prev' = 0
    /\ j' = 0
    /\ UNCHANGED <<insetVars, fillVars, op, pc, layer, walkVars>>

\* lines 134-136 left out: ok is not looked at, the walk runs on an empty tree
UnionFailIgnored ==
    /\ op = "GenerateLayerParts" /\ pc = "filter"
    /\ Len(polyList) = Len(layer)
    /\ unionOk' = FALSE
    /\ tree' = <<>>
    /\ polysForNextRound' = <<>>
    /\ nextIsNil' = FALSE
    /\ pc' = "round"
    /\ UNCHANGED <<insetVars, fillVars, op, filterVars, thisRound, k, parts, glpOk>>

\* lines 131-136: the union fails; return nil, false
UnionFail ==
    /\ op = "GenerateLayerParts" /\ pc = "filter"
    /\ Len(polyList) = Len(layer)
    /\ unionOk' = FALSE
    /\ glpOk' = FALSE
    /\ pc' = "done"
    /\ UNCHANGED <<insetVars, fillVars, op, filterVars, tree, polysForNextRound, nextIsNil, thisRound, k, parts>>

\* lines 131-142: the union succeeds; its top-level children are the first round
Union ==
    /\ op = "GenerateLayerParts" /\ pc = "filter"
    /\ Len(polyList) = Len(layer)
    /\ \E t \in Execute2(polyList) :
        /\ tree' = t
        /\ polysForNextRound' = Childs(t, 0)
    /\ unionOk' = TRUE
    /\ nextIsNil' = FALSE
    /\ pc' = "round"
    /\ UNCHANGED <<insetVars, fillVars, op, filterVars, thisRound, k, parts, glpOk>>

\* lines 144-148: the next round starts
Round ==
    /\ op = "GenerateLayerParts" /\ pc = "round"
    /\ ~nextIsNil
    /\ thisRound' = polysForNextRound
    /\ polysForNextRound' = <<>>
    /\ nextIsNil' = TRUE
    /\ k' = 0
    /\ pc' = "part"
    /\ UNCHANGED <<insetVars, fillVars, op, filterVars, unionOk, tree, parts, glpOk>>

\* lines 157-159 with the holes themselves collected
NextRoundOfHoles(t, p) == Childs(t, p)

\* the nodes lines 157-159 collect for p: the children of p's children
NextRoundOf(t, p) == Flatten([h \in 1..Len(Childs(t, p)) |-> Childs(t, Childs(t, p)[h])])

\* lines 152-156: the part of node p
PartOf(t, p) ==
    [outline |-> Contour(p),
     holes |-> [h \in 1..Len(Childs(t, p)) |-> Contour(Childs(t, p)[h])]]

\* lines 150-162, one node p of thisRound
Part ==
    /\ op = "GenerateLayerParts" /\ pc = "part"
    /\ k < Len(thisRound)
    /\ LET p == At(thisRound, k)
           more == NextRoundOf(tree, p)
       IN  /\ parts' = Append(parts, PartOf(tree, p))
           /\ polysForNextRound' = polysForNextRound \o more
           /\ nextIsNil' = (nextIsNil /\ more = <<>>)
    /\ k' = k + 1
    /\ UNCHANGED <<insetVars, fillVars, op, pc, filterVars, unionOk, tree, thisRound, glpOk>>

\* line 150: thisRound is exhausted, back to line 143
RoundDone ==
    /\ op = "GenerateLayerParts" /\ pc = "part"
    /\ k = Len(thisRound)
    /\ pc' = "round"
    /\ UNCHANGED <<insetVars, fillVars, op, filterVars, walkVars>>

\* lines 144-146 and 164: nothing is left; return layer, true
Return ==
    /\ op = "GenerateLayerParts" /\ pc = "round"
    /\ nextIsNil
    /\ glpOk' = TRUE
    /\ pc' = "done"
    /\ UNCHANGED <<insetVars, fillVars, op, filterVars, unionOk, tree, polysForNextRound, nextIsNil, thisRound, k, parts>>

NextGLP ==
    \/ FilterFirst
    \/ FilterSkip
    \/ FilterKeep
    \/ FilterPathDone
    \/ UnionFail
    \/ Union
    \/ Round
    \/ Part
    \/ RoundDone
    \/ Return

SpecGLP == InitGLP /\ [][NextGLP]_vars

\* ------------------------------------------------------------- Inset: data
\* Go's integer division: the quotient is truncated towards zero
GoDiv(a, b) ==
    IF a >= 0 THEN a \div b ELSE -((-a) \div b)

\* line 188 without the negation
DeltaOutward(off, nr) == (off * nr) + GoDiv(off, 2)

\* line 188: float64(-int(offset)*insetNr) - float64(offset/2)
Delta(off, nr) == ((-off) * nr) - GoDiv(off, 2)

\* lines 201-203: for len(insets[wallNr]) <= insetNr { append an empty Paths }
PadTo(s, n) == IF Len(s) >= n THEN s ELSE s \o [e \in 1..(n - Len(s)) |-> <<>>]

\* lines 194-205 for one wall: the contour of wall wallNr at level nr
AddWall(ins, nr, wallNr) ==
    LET a == IF Len(ins) <= wallNr THEN Append(ins, <<>>) ELSE ins
        b == [a EXCEPT ![wallNr + 1] = PadTo(@, nr + 1)]
    IN  [b EXCEPT ![wallNr + 1][nr + 1] = Append(@, <<nr, wallNr>>)]

\* line 193: the walls 0..n-1 of level nr, in order
RECURSIVE AddWalls(_, _, _)
AddWalls(ins, nr, n) ==
    IF n = 0 THEN ins ELSE AddWall(AddWalls(ins, nr, n - 1), nr, n - 1)

\* ---------------------------------------------------------- Inset: actions
InitInset ==
    /\ IdleGLP /\ IdleFill
    /\ op = "Inset"
    /\ pc = "loop"
    /\ offset \in (-1)..MaxOffset
    /\ insetCount \in 0..MaxInsetCount
    /\ offsetResult \in [1..MaxInsetCount -> 0..MaxWalls]
    /\ insetNr = 0
    /\ insets = <<>>
    /\ calls = <<>>

\* lines 181-190 and 193-207: the engine answers contours, one per wall
InsetLevel ==
    /\ op = "Inset" /\ pc = "loop"
    /\ insetNr < insetCount
    /\ At(offsetResult, insetNr) > 0
    /\ calls' = Append(calls, [level |-> insetNr, delta |-> Delta(offset, insetNr)])
    /\ insets' = AddWalls(insets, insetNr, At(offsetResult, insetNr))
    /\ insetNr' = insetNr + 1
    /\ UNCHANGED <<glpVars, fillVars, op, pc, offset, insetCount, offsetResult>>

\* lines 190-191 taken as a continue
InsetSkipLevel ==
    /\ op = "Inset" /\ pc = "loop"
    /\ insetNr < insetCount
    /\ At(offsetResult, insetNr) <= 0
    /\ calls' = Append(calls, [level |-> insetNr, delta |-> Delta(offset, insetNr)])
    /\ insetNr' = insetNr + 1
    /\ UNCHANGED <<glpVars, fillVars, op, pc, offset, insetCount, offsetResult, insets>>

\* lines 181-191 and 210: the engine answers no contour; break and return
InsetBreak ==
    /\ op = "Inset" /\ pc = "loop"
    /\ insetNr < insetCount
    /\ At(offsetResult, insetNr) <= 0
    /\ calls' = Append(calls, [level |-> insetNr, delta |-> Delta(offset, insetNr)])
    /\ pc' = "done"
    /\ UNCHANGED <<glpVars, fillVars, op, offset, insetCount, offsetResult, insetNr, insets>>

\* lines 181 and 210: insetNr reached insetCount; return
InsetReturn ==
    /\ op = "Inset" /\ pc = "loop"
    /\ insetNr >= insetCount
    /\ pc' = "done"
    /\ UNCHANGED <<glpVars, fillVars, op, insetVars>>

NextInset ==
    \/ InsetLevel
    \/ InsetBreak
    \/ InsetReturn

SpecInset == InitInset /\ [][NextInset]_vars

\* -------------------------------------------------------------- Fill: data
Coords == (-1)..MaxCoord

\* data.Paths.Size(): the corners of the bounding box of a region that has
\* points (min <= max on both axes); a region without points has no box, and
\* min lies beyond max on both axes.
Boxes(n) ==
    {b \in (Coords \X {0, 1}) \X (Coords \X {0, 1}) :
        \/ b[1][1] <= b[2][1] /\ b[1][2] <= b[2][2]
        \/ n = 0 /\ b[1][1] > b[2][1] /\ b[1][2] > b[2][2]}

\* What cl.Execute2(CtIntersection, ...) answers for one contour: ok, and the
\* number of children of the tree.
Answers == [ok : BOOLEAN, n : 0..MaxSegs]

\* With lineWidth > 0 no more than this many lines fit a box; the model
\* records the lines up to one more than that.
MaxLines == (MaxCoord + 1) + 2

\* line 229 with < for <=
InRangeStrict(xx) == xx < maxScanlines[1]

\* line 229: x <= maxScanlines.X()
InRange(xx) == xx <= maxScanlines[1]

\* lines 231-253 with the directions exchanged
LineFlipped(xx, n) ==
    IF n % 2 = 0
    THEN <<<<xx, maxScanlines[2]>>, <<xx, minScanlines[2]>>>>
    ELSE <<<<xx, minScanlines[2]>>, <<xx, maxScanlines[2]>>>>

\* lines 231-253: the scanline at xx, downwards when numLine is odd
Line(xx, n) ==
    IF n % 2 = 1
    THEN <<<<xx, maxScanlines[2]>>, <<xx, minScanlines[2]>>>>
    ELSE <<<<xx, minScanlines[2]>>, <<xx, maxScanlines[2]>>>>

\* lines 273-275: the contours of the children of the tree of contour i
Segments(i) == [s \in 1..At(polys, i).n |-> <<i, s>>]

\* ----------------------------------------------------------- Fill: actions
\* lines 213-216 and 221-229
InitFill ==
    /\ IdleGLP /\ IdleInset
    /\ op = "Fill"
    /\ pc = "scan"
    /\ polys \in SeqsUpTo(Answers, MaxPolys)
    /\ \E b \in Boxes(Len(polys)) :
        /\ minScanlines = b[1]
        /\ maxScanlines = b[2]
    /\ lineWidth \in 0..MaxLineWidth
    /\ x = minScanlines[1]
    /\ numLine = 0
    /\ lines = <<>>
    /\ idx = 0
    /\ result = <<>>

\* lines 229-255, one iteration
ScanLine ==
    /\ op = "Fill" /\ pc = "scan"
    /\ InRange(x)
    /\ lines' = IF Len(lines) < MaxLines THEN Append(lines, Line(x, numLine)) ELSE lines
    /\ numLine' = (numLine + 1) % 2
    /\ x' = x + lineWidth
    /\ UNCHANGED <<glpVars, insetVars, op, pc, minScanlines, maxScanlines, lineWidth, polys, idx, result>>

\* line 229: x is beyond the box; on to line 257
ScanDone ==
    /\ op = "Fill" /\ pc = "scan"
    /\ ~InRange(x)
    /\ pc' = "clip"
    /\ UNCHANGED <<glpVars, insetVars, op, fillVars>>

\* lines 257-276, one contour: the intersection succeeds
ClipPath ==
    /\ op = "Fill" /\ pc = "clip"
    /\ idx < Len(polys)
    /\ At(polys, idx).ok
    /\ result' = result \o Segments(idx)
    /\ idx' = idx + 1
    /\ UNCHANGED <<glpVars, insetVars, op, pc, minScanlines, maxScanlines, lineWidth, polys, x, numLine, lines>>

\* lines 268-271 taken as a continue
ClipFailSkip ==
    /\ op = "Fill" /\ pc = "clip"
    /\ idx < Len(polys)
    /\ ~At(polys, idx).ok
    /\ idx' = idx + 1
    /\ UNCHANGED <<glpVars, insetVars, op, pc, minScanlines, maxScanlines, lineWidth, polys, x, numLine, lines, result>>

\* lines 267-271 and 217: the intersection fails; return nil
ClipFail ==
    /\ op = "Fill" /\ pc = "clip"
    /\ idx < Len(polys)
    /\ ~At(polys, idx).ok
    /\ result' = <<>>
    /\ pc' = "done"
    /\ UNCHANGED <<glpVars, insetVars, op, minScanlines, maxScanlines, lineWidth, polys, x, numLine, lines, idx>>

\* lines 257, 278 and 217: every contour is done; return result
FillReturn ==
    /\ op = "Fill" /\ pc = "clip"
    /\ idx = Len(polys)
    /\ pc' = "done"
    /\ UNCHANGED <<glpVars, insetVars, op, fillVars>>

NextFill ==
    \/ ScanLine
    \/ ScanDone
    \/ ClipPath
    \/ ClipFail
    \/ FillReturn

SpecFill == InitFill /\ [][NextFill]_vars

\* ------------------------------------------------------ the three together
Init == InitGLP \/ InitInset \/ InitFill

Next == NextGLP \/ NextInset \/ NextFill

Spec == Init /\ [][Next]_vars

\* Each operation is one synchronous call: a step that can be taken is taken.
FairSpec == Spec /\ WF_vars(Next)

\* ============================================================== properties
RECURSIVE Depth(_, _)
Depth(t, n) == IF n = 0 THEN 0 ELSE 1 + Depth(t, t[n])

\* the solid nodes: those at odd depth below the synthetic root
Solid(t) == {n \in 1..Len(t) : Depth(t, n) % 2 = 1}

Range(s) == {s[n] : n \in 1..Len(s)}

Dist2(p, q) == (p[1] - q[1]) * (p[1] - q[1]) + (p[2] - q[2]) * (p[2] - q[2])

Max(S) == CHOOSE m \in S : \A o \in S : o <= m

Min(S) == CHOOSE m \in S : \A o \in S : m <= o

GLPDone == op = "GenerateLayerParts" /\ pc = "done"

InsetDone == op = "Inset" /\ pc = "done"

FillDone == op = "Fill" /\ pc = "done"

\* C1: in any result of Inset every wall holds the same number of inset
\* levels, and that number is the number of levels attempted (counted with or
\* without the level at which the engine answered no contour).
C1_WallIndexDensity ==
    InsetDone =>
        \/ \A w \in 1..Len(insets) : Len(insets[w]) = insetNr
        \/ \A w \in 1..Len(insets) : Len(insets[w]) = Len(calls)

\* C2: when GenerateLayerParts returns ok, there is exactly one part per solid
\* node of the union tree (odd depth), each once; a part's holes are exactly
\* the contours of the direct children of its outline's node, in the engine's
\* order; so every child of a hole is the outline of a part of its own.
C2_OnePartPerSolidNode ==
    (GLPDone /\ glpOk) =>
        /\ Len(parts) = Cardinality(Solid(tree))
        /\ {parts[n].outline : n \in 1..Len(parts)} = Solid(tree)
        /\ \A n \in 1..Len(parts) :
            LET h == parts[n].holes
            IN  /\ Range(h) = {m \in 1..Len(tree) : tree[m] = parts[n].outline}
                /\ \A a, b \in 1..Len(h) : a < b => h[a] < h[b]

\* C2 witness: the call returned for a tree with an island inside a hole
C2_NestedIslandReached ==
    /\ GLPDone /\ glpOk
    /\ \E n \in 1..Len(tree) : Depth(tree, n) = 3
    /\ Len(parts) >= 2

\* C3: of every filtered path the first point is retained, and a later point
\* is retained exactly when it is not closer than 100 to the most recently
\* retained point before it; consecutive retained points are at least 100
\* apart.
C3_NearPointsFiltered ==
    op = "GenerateLayerParts" =>
        \A q \in 1..Len(polyList) :
            LET in == layer[q]
                out == polyList[q]
                ix == keptAll[q]
            IN  /\ Len(out) = Len(ix)
                /\ \A n \in 1..Len(ix) : ix[n] \in 0..(Len(in) - 1) /\ out[n] = At(in, ix[n])
                /\ \A n \in 1..(Len(ix) - 1) : ix[n] < ix[n + 1]
                /\ in # <<>> => (ix # <<>> /\ ix[1] = 0)
                /\ \A jj \in 1..(Len(in) - 1) :
                    LET last == Max({i \in Range(ix) : i < jj})
                    IN  (jj \in Range(ix)) <=>
                            (Dist2(At(in, jj), At(in, last)) >= MinDistance * MinDistance)
                /\ \A n \in 1..(Len(out) - 1) :
                    Dist2(out[n], out[n + 1]) >= MinDistance * MinDistance

\* C3 witness: a finished path of three points whose second point was dropped
\* and whose third, near the second but not near the first, was retained
C3_RunCollapsed ==
    /\ op = "GenerateLayerParts"
    /\ \E q \in 1..Len(polyList) :
        /\ Len(layer[q]) = 3
        /\ keptAll[q] = <<0, 2>>
        /\ Dist2(layer[q][3], layer[q][2]) < MinDistance * MinDistance

\* the contours whose intersection succeeds, and all their segments in order
AllSegments == Flatten([i \in 1..Len(polys) |-> IF polys[i].ok THEN Segments(i - 1) ELSE <<>>])

Failing == {i \in 0..(Len(polys) - 1) : ~At(polys, i).ok}

\* C4 as stated: a failing Intersect costs only its own contour; Fill goes
\* through every contour and returns the segments of all the others.
C4_FailureKeepsOtherFills ==
    FillDone => (idx = Len(polys) /\ result = AllSegments)

\* C4 amended: when Intersect fails for a contour Fill stops there: no later
\* contour is processed and the result is empty, the segments of the contours
\* before it included.
C4_FailureAbortsFill ==
    (FillDone /\ Failing # {}) => (idx = Min(Failing) /\ result = <<>>)

\* C4 witness: the first contour gave a segment, the second failed
C4_FailureAfterSuccess ==
    /\ FillDone
    /\ Len(polys) = 2
    /\ polys[1].ok /\ polys[1].n > 0 /\ ~polys[2].ok

\* C5: GenerateLayerParts returns false exactly when the union failed, and
\* then no parts; an empty layer whose union succeeds returns true and no
\* parts.
C5_OkIffUnionOk ==
    GLPDone =>
        /\ glpOk <=> unionOk
        /\ ~glpOk => parts = <<>>
        /\ (layer = <<>> /\ unionOk) => (glpOk /\ parts = <<>>)

\* C5 witness: the union failed on a layer that has points
C5_UnionFailed == GLPDone /\ ~unionOk /\ NumPoints(layer) > 0

\* C6: with lineWidth > 0 and minX <= maxX there are
\* floor((maxX - minX) / lineWidth) + 1 scanlines, the i-th at
\* minX + i * lineWidth, each joining minY and maxY.
C6_ScanlineCount ==
    (op = "Fill" /\ pc # "scan" /\ lineWidth > 0 /\ minScanlines[1] <= maxScanlines[1]) =>
        /\ Len(lines) = ((maxScanlines[1] - minScanlines[1]) \div lineWidth) + 1
        /\ \A i \in 0..(Len(lines) - 1) :
            /\ At(lines, i)[1][1] = minScanlines[1] + i * lineWidth
            /\ At(lines, i)[2][1] = minScanlines[1] + i * lineWidth
            /\ {At(lines, i)[1][2], At(lines, i)[2][2]} = {minScanlines[2], maxScanlines[2]}

\* C6 witness: a box three wide scanned with lineWidth 2
C6_ScanlinesFloor ==
    /\ op = "Fill" /\ pc # "scan"
    /\ lineWidth = 2
    /\ maxScanlines[1] - minScanlines[1] = 3
    /\ Len(lines) = 2

\* C7 as stated: every even-indexed scanline starts at a smaller y than it
\* ends at, every odd-indexed one at a larger y.
C7_ZigzagStrict ==
    op = "Fill" =>
        \A i \in 0..(Len(lines) - 1) :
            IF i % 2 = 0
            THEN At(lines, i)[1][2] < At(lines, i)[2][2]
            ELSE At(lines, i)[1][2] > At(lines, i)[2][2]

\* C7 amended: every even-indexed scanline runs from minY to maxY and every
\* odd-indexed one from maxY to minY; the first y is strictly smaller (larger)
\* than the last whenever the box has a height, and equal to it when
\* minY = maxY.
C7_Zigzag ==
    op = "Fill" =>
        \A i \in 0..(Len(lines) - 1) :
            LET first == At(lines, i)[1][2]
                last == At(lines, i)[2][2]
                flat == minScanlines[2] = maxScanlines[2]
            IN  IF i % 2 = 0
                THEN first <= last /\ (first = last <=> flat)
                ELSE first >= last /\ (first = last <=> flat)

\* C7 witness: two scanlines of a box that has a height
C7_TwoLines ==
    /\ op = "Fill"
    /\ Len(lines) >= 2
    /\ minScanlines[2] < maxScanlines[2]

\* C8: every call of GenerateLayerParts, Inset and Fill returns.
C8_Terminates == <>(pc = "done")

\* the first level at which the engine answers no contour
FirstEmpty == Min({l \in 0..MaxInsetCount : l = MaxInsetCount \/ At(offsetResult, l) = 0})

\* C9: Inset stops at the first level at which Offset answers no contour: the
\* engine is called for no later level, no wall holds an entry for that level
\* or a later one, and when that level is 0 there is no wall.
C9_StopsAtFirstEmptyLevel ==
    (op = "Inset" /\ FirstEmpty < insetCount) =>
        /\ \A c \in 1..Len(calls) : calls[c].level <= FirstEmpty
        /\ \A w \in 1..Len(insets) : Len(insets[w]) <= FirstEmpty
        /\ FirstEmpty = 0 => insets = <<>>
        /\ InsetDone => (Len(calls) = FirstEmpty + 1 /\ insetNr = FirstEmpty)

\* C9 witness: Inset returned after an empty level 1 although level 2 was
\* asked for and would have given contours
C9_StoppedBeforeUsableLevel ==
    /\ InsetDone
    /\ insetCount >= 3
    /\ FirstEmpty = 1
    /\ At(offsetResult, 2) > 0

\* C10 as stated: for offset > 0 the distance of level k is
\* -(offset * k) - offset / 2 (the half taken exactly or in whole
\* micrometers), it is negative at every level, and each level lies one
\* offset further inward than the one before.
C10_InwardAtEveryLevel ==
    (op = "Inset" /\ offset > 0) =>
        \A c \in 1..Len(calls) :
            LET half == -(calls[c].delta + offset * calls[c].level)
            IN  /\ calls[c].level = c - 1
                /\ 2 * half \in {offset - 1, offset}
                /\ calls[c].delta < 0
                /\ c > 1 => calls[c].delta = calls[c - 1].delta - offset

\* C10 amended: for offset > 0 the distance of level k is
\* -(offset * k) - floor(offset / 2), the half rounded down to a whole
\* micrometer; it is never positive, and negative except at level 0 with
\* offset = 1, where it is 0; each level lies exactly one offset further
\* inward than the one before.
C10_TruncatedHalfOffset ==
    (op = "Inset" /\ offset > 0) =>
        \A c \in 1..Len(calls) :
            LET half == -(calls[c].delta + offset * calls[c].level)
            IN  /\ calls[c].level = c - 1
                /\ 2 * half \in {offset - 1, offset}
                /\ calls[c].delta <= 0
                /\ calls[c].delta = 0 <=> (offset = 1 /\ calls[c].level = 0)
                /\ c > 1 => calls[c].delta = calls[c - 1].delta - offset

\* C10 witness: two levels were offset with an odd offset
C10_OddOffsetTwoLevels ==
    /\ op = "Inset"
    /\ offset = 3
    /\ Len(calls) >= 2

====
